---- MODULE Spec2Model ----
(***************************************************************************)
(* A model of the preprocessing layer of wcmatch (st3/wcmatch):            *)
(*   util.py     norm_pattern (RE_NORM / RE_BNORM, BACK_SLASH_TRANSLATION) *)
(*               and the StringIter cursor;                                *)
(*   fnmatch.py  _flag_transform and translate/fnmatch/filter/is_magic.    *)
(* Text and byte patterns are sequences of code units (integers).          *)
(***************************************************************************)
EXTENDS Integers, Sequences, FiniteSets, TLC

VARIABLES
    \* ---- norm_pattern call state ----
    pattern,        \* the pattern argument, a sequence of code units
    is_bytes,       \* isinstance(pattern, bytes)
    normalize,      \* argument normalize
    is_raw_chars,   \* argument is_raw_chars
    ignore_escape,  \* argument ignore_escape
    npc,            \* "args" | "once" | "twice"
    result,         \* outcome of norm_pattern(pattern, ...)
    result2,        \* outcome of norm_pattern(result.out, ...) with the same flags
    \* ---- a call of one function of fnmatch.py ----
    op,             \* the function called, "idle" before the call
    apc,            \* position in that function
    in_flags,       \* the flags argument as the caller gave it
    flags,          \* the local variable flags
    patterns,       \* argument patterns
    exclude,        \* argument exclude
    filenames,      \* argument filenames (filename for fnmatch: a one-element sequence)
    fi,             \* filter: number of filenames the for loop has taken
    obj,            \* filter: the compiled matcher
    matches,        \* filter: the list matches
    calls,          \* the calls made to _wcparse so far, in order
    evals,          \* the filenames handed to obj.match so far, in order
    ret,            \* the value returned
    \* ---- a StringIter object ----
    _string,        \* self._string
    _index,         \* self._index
    last            \* the last method call: its name, argument, outcome

nvars == << pattern, is_bytes, normalize, is_raw_chars, ignore_escape, npc, result, result2 >>

avars == << op, apc, in_flags, flags, patterns, exclude, filenames, fi, obj, matches,
            calls, evals, ret >>

ivars == << _string, _index, last >>

vars == << nvars, avars, ivars >>

(***************************************************************************)
(* Code units                                                              *)
(***************************************************************************)
BSL == 92        \* backslash
FSL == 47        \* /
LBRACE == 123
RBRACE == 125
Ch_N == 78
Ch_U == 85
Ch_u == 117
Ch_x == 120

OctDigits == 48..55
HexDigits == (48..57) \cup (97..102) \cup (65..70)
StdLetters == {97, 98, 102, 110, 114, 116, 118, 92}     \* a b f n r t v \

HexVal(c) ==
    IF c \in 48..57 THEN c - 48
    ELSE IF c \in 97..102 THEN c - 87
    ELSE c - 55

RECURSIVE int(_, _)
\* int(text, base) for a text of digits of that base
int(s, base) ==
    IF s = << >> THEN 0
    ELSE int(SubSeq(s, 1, Len(s) - 1), base) * base + HexVal(s[Len(s)])

(***************************************************************************)
(* RE_NORM / RE_BNORM: one match attempt anchored at the 0-based offset i. *)
(* A match is [grp, start, end, g4]: grp is the number of the top-level    *)
(* group that took part, start/end are m.start()/m.end(), g4 says whether  *)
(* group 4 (the octal digits) took part.  grp = 0 is "no match here".      *)
(***************************************************************************)
NoMatch == [grp |-> 0, start |-> 0, end |-> 0, g4 |-> FALSE]

M(g, i, e, oct) == [grp |-> g, start |-> i, end |-> e, g4 |-> oct]

At(s, k) == IF k >= 0 /\ k < Len(s) THEN s[k + 1] ELSE -1

AllHex(s, a, n) == \A k \in a..(a + n - 1) : At(s, k) \in HexDigits

\* number of units matched by [0-7]{1,3} at offset a (0 when none)
OctRun(s, a) ==
    IF At(s, a) \notin OctDigits THEN 0
    ELSE IF At(s, a + 1) \notin OctDigits THEN 1
    ELSE IF At(s, a + 2) \notin OctDigits THEN 2
    ELSE 3

\* offset of the first } at or after offset a, or -1
FirstRbrace(s, a) ==
    LET ks == {k \in a..(Len(s) - 1) : At(s, k) = RBRACE}
    IN IF ks = {} THEN -1 ELSE CHOOSE k \in ks : \A j \in ks : k <= j

RE_NORM(s, i) ==
    LET c == At(s, i)
        d == At(s, i + 1)
    IN  IF c = FSL THEN M(1, i, i + 1, FALSE)
        ELSE IF c # BSL \/ d = -1 THEN NoMatch
        ELSE IF d = FSL THEN M(1, i, i + 2, FALSE)
        ELSE IF d \in StdLetters THEN M(2, i, i + 2, FALSE)
        ELSE IF d = Ch_U /\ AllHex(s, i + 2, 8) THEN M(3, i, i + 10, FALSE)
        ELSE IF d = Ch_u /\ AllHex(s, i + 2, 4) THEN M(3, i, i + 6, FALSE)
        ELSE IF d = Ch_x /\ AllHex(s, i + 2, 2) THEN M(3, i, i + 4, FALSE)
        ELSE IF d \in OctDigits THEN M(3, i, i + 1 + OctRun(s, i + 1), TRUE)
        ELSE IF d = Ch_N /\ At(s, i + 2) = LBRACE /\ FirstRbrace(s, i + 3) # -1
             THEN M(5, i, FirstRbrace(s, i + 3) + 1, FALSE)
        ELSE IF d \notin {Ch_N, Ch_U, Ch_u, Ch_x} THEN M(6, i, i + 2, FALSE)
        ELSE M(7, i, i + 2, FALSE)

\* variant: the byte grammar given the unicode and named branches of the text grammar
RE_BNORM_unicode(s, i) == RE_NORM(s, i)

RE_BNORM(s, i) ==
    LET c == At(s, i)
        d == At(s, i + 1)
    IN  IF c = FSL THEN M(1, i, i + 1, FALSE)
        ELSE IF c # BSL \/ d = -1 THEN NoMatch
        ELSE IF d = FSL THEN M(1, i, i + 2, FALSE)
        ELSE IF d \in StdLetters THEN M(2, i, i + 2, FALSE)
        ELSE IF d = Ch_x /\ AllHex(s, i + 2, 2) THEN M(3, i, i + 4, FALSE)
        ELSE IF d \in OctDigits THEN M(3, i, i + 1 + OctRun(s, i + 1), TRUE)
        ELSE IF d # Ch_x THEN M(5, i, i + 2, FALSE)
        ELSE M(6, i, i + 2, FALSE)

\* pat = RE_BNORM if is_bytes else RE_NORM
pat(s, i, bytes) == IF bytes THEN RE_BNORM(s, i) ELSE RE_NORM(s, i)

\* truthiness of m.group(k)
group(m, k) == IF k = 4 THEN m.g4 ELSE m.grp = k

\* m.group(0)
group0(s, m) == SubSeq(s, m.start + 1, m.end)

(***************************************************************************)
(* BACK_SLASH_TRANSLATION, keyed by the two-unit escape text.              *)
(***************************************************************************)
\* variant: an escaped backslash decoded to one backslash
BACK_SLASH_TRANSLATION_single(g) ==
    CASE g[2] = 97  -> << 7 >>
      [] g[2] = 98  -> << 8 >>
      [] g[2] = 102 -> << 12 >>
      [] g[2] = 114 -> << 13 >>
      [] g[2] = 116 -> << 9 >>
      [] g[2] = 110 -> << 10 >>
      [] g[2] = 118 -> << 11 >>
      [] g[2] = 92  -> << 92 >>

\* variant: the entries of \r and \n exchanged
BACK_SLASH_TRANSLATION_crlf(g) ==
    CASE g[2] = 97  -> << 7 >>
      [] g[2] = 98  -> << 8 >>
      [] g[2] = 102 -> << 12 >>
      [] g[2] = 114 -> << 10 >>
      [] g[2] = 116 -> << 9 >>
      [] g[2] = 110 -> << 13 >>
      [] g[2] = 118 -> << 11 >>
      [] g[2] = 92  -> << 92, 92 >>

BACK_SLASH_TRANSLATION(g) ==
    CASE g[2] = 97  -> << 7 >>
      [] g[2] = 98  -> << 8 >>
      [] g[2] = 102 -> << 12 >>
      [] g[2] = 114 -> << 13 >>
      [] g[2] = 116 -> << 9 >>
      [] g[2] = 110 -> << 10 >>
      [] g[2] = 118 -> << 11 >>
      [] g[2] = 92  -> << 92, 92 >>

(***************************************************************************)
(* Library calls used by norm: chr() and unicodedata.lookup().             *)
(***************************************************************************)
MaxCodePoint == 1114111      \* chr() raises ValueError above 0x10FFFF

Ret(c) == [ok |-> TRUE, out |-> c, err |-> "", value |-> << >>, pos |-> -1]

Raise(kind, v, p) == [ok |-> FALSE, out |-> << >>, err |-> kind, value |-> v, pos |-> p]

chr(v) == IF v > MaxCodePoint THEN Raise("ValueError", << >>, -1) ELSE Ret(<< v >>)

ToUpper(name) == [k \in 1..Len(name) |-> IF name[k] \in 97..122 THEN name[k] - 32 ELSE name[k]]

Name_OX == << 79, 88 >>
Name_LF == << 76, 70 >>
Name_REVERSE_SOLIDUS == << 82, 69, 86, 69, 82, 83, 69, 32, 83, 79, 76, 73, 68, 85, 83 >>

\* unicodedata.lookup(name): case-insensitive; KeyError for an unknown name.
\* The character database is cut down to three of its entries.
lookup(name) ==
    LET u == ToUpper(name)
    IN  IF u = Name_OX THEN Ret(<< 128002 >>)
        ELSE IF u = Name_LF THEN Ret(<< 10 >>)
        ELSE IF u = Name_REVERSE_SOLIDUS THEN Ret(<< BSL >>)
        ELSE Raise("KeyError", << >>, -1)

(***************************************************************************)
(* norm(m): the replacement callback of norm_pattern.                      *)
(***************************************************************************)
slash == << BSL >>
multi_slash == << BSL, BSL, BSL, BSL >>

\* variant: the last test accepts every match, so no escape is ever rejected
norm_lenient(s, m, bytes, norm_sep, raw, ign) ==
    LET g0 == group0(s, m)
    IN  IF group(m, 1)
            THEN Ret(IF norm_sep /\ Len(g0) > 1 THEN multi_slash ELSE g0)
        ELSE IF group(m, 2)
            THEN Ret(IF raw THEN BACK_SLASH_TRANSLATION(g0) ELSE g0)
        ELSE IF raw /\ group(m, 4)
            THEN IF bytes THEN Ret(<< int(SubSeq(g0, 2, Len(g0)), 8) % 256 >>)
                 ELSE chr(int(SubSeq(g0, 2, Len(g0)), 8))
        ELSE IF raw /\ group(m, 3)
            THEN IF bytes THEN Ret(<< int(SubSeq(g0, 3, Len(g0)), 16) >>)
                 ELSE chr(int(SubSeq(g0, 3, Len(g0)), 16))
        ELSE IF raw /\ ~bytes /\ group(m, 5)
            THEN lookup(SubSeq(g0, 4, Len(g0) - 1))
        ELSE IF TRUE \/ group(m, IF bytes THEN 5 ELSE 6)
            THEN Ret(IF ign THEN slash \o g0 ELSE g0)
        ELSE Raise("SyntaxError", g0, m.start)

\* variant: the error reports m.end() instead of m.start()
norm_pos_end(s, m, bytes, norm_sep, raw, ign) ==
    LET g0 == group0(s, m)
    IN  IF group(m, 1)
            THEN Ret(IF norm_sep /\ Len(g0) > 1 THEN multi_slash ELSE g0)
        ELSE IF group(m, 2)
            THEN Ret(IF raw THEN BACK_SLASH_TRANSLATION(g0) ELSE g0)
        ELSE IF raw /\ group(m, 4)
            THEN IF bytes THEN Ret(<< int(SubSeq(g0, 2, Len(g0)), 8) % 256 >>)
                 ELSE chr(int(SubSeq(g0, 2, Len(g0)), 8))
        ELSE IF raw /\ group(m, 3)
            THEN IF bytes THEN Ret(<< int(SubSeq(g0, 3, Len(g0)), 16) >>)
                 ELSE chr(int(SubSeq(g0, 3, Len(g0)), 16))
        ELSE IF raw /\ ~bytes /\ group(m, 5)
            THEN lookup(SubSeq(g0, 4, Len(g0) - 1))
        ELSE IF ~raw \/ group(m, IF bytes THEN 5 ELSE 6)
            THEN Ret(IF ign THEN slash \o g0 ELSE g0)
        ELSE Raise("SyntaxError", g0, m.end)

\* variant: the extra backslash is added only when is_raw_chars is off
norm_prefix_unless_raw(s, m, bytes, norm_sep, raw, ign) ==
    LET g0 == group0(s, m)
    IN  IF group(m, 1)
            THEN Ret(IF norm_sep /\ Len(g0) > 1 THEN multi_slash ELSE g0)
        ELSE IF group(m, 2)
            THEN Ret(IF raw THEN BACK_SLASH_TRANSLATION(g0) ELSE g0)
        ELSE IF raw /\ group(m, 4)
            THEN IF bytes THEN Ret(<< int(SubSeq(g0, 2, Len(g0)), 8) % 256 >>)
                 ELSE chr(int(SubSeq(g0, 2, Len(g0)), 8))
        ELSE IF raw /\ group(m, 3)
            THEN IF bytes THEN Ret(<< int(SubSeq(g0, 3, Len(g0)), 16) >>)
                 ELSE chr(int(SubSeq(g0, 3, Len(g0)), 16))
        ELSE IF raw /\ ~bytes /\ group(m, 5)
            THEN lookup(SubSeq(g0, 4, Len(g0) - 1))
        ELSE IF ~raw \/ group(m, IF bytes THEN 5 ELSE 6)
            THEN Ret(IF ign /\ ~raw THEN slash \o g0 ELSE g0)
        ELSE Raise("SyntaxError", g0, m.start)

norm(s, m, bytes, norm_sep, raw, ign) ==
    LET g0 == group0(s, m)
    IN  IF group(m, 1)
            THEN Ret(IF norm_sep /\ Len(g0) > 1 THEN multi_slash ELSE g0)
        ELSE IF group(m, 2)
            THEN Ret(IF raw THEN BACK_SLASH_TRANSLATION(g0) ELSE g0)
        ELSE IF raw /\ group(m, 4)
            THEN IF bytes THEN Ret(<< int(SubSeq(g0, 2, Len(g0)), 8) % 256 >>)
                 ELSE chr(int(SubSeq(g0, 2, Len(g0)), 8))
        ELSE IF raw /\ group(m, 3)
            THEN IF bytes THEN Ret(<< int(SubSeq(g0, 3, Len(g0)), 16) >>)
                 ELSE chr(int(SubSeq(g0, 3, Len(g0)), 16))
        ELSE IF raw /\ ~bytes /\ group(m, 5)
            THEN lookup(SubSeq(g0, 4, Len(g0) - 1))
        ELSE IF ~raw \/ group(m, IF bytes THEN 5 ELSE 6)
            THEN Ret(IF ign THEN slash \o g0 ELSE g0)
        ELSE Raise("SyntaxError", g0, m.start)

(***************************************************************************)
(* pat.sub(norm, pattern): replace the non-overlapping matches, scanning   *)
(* left to right from offset i.  toks logs every call of norm: the match,  *)
(* its text and what norm returned for it.                                 *)
(***************************************************************************)
Tok(s, m, r) == [grp |-> m.grp, g4 |-> m.g4, start |-> m.start,
                 text |-> group0(s, m), ok |-> r.ok, out |-> r.out]

RECURSIVE sub(_, _, _, _, _, _)
sub(s, i, bytes, norm_sep, raw, ign) ==
    IF i >= Len(s) THEN [ok |-> TRUE, out |-> << >>, err |-> "", value |-> << >>,
                         pos |-> -1, toks |-> << >>]
    ELSE
        LET m == pat(s, i, bytes)
        IN  IF m = NoMatch
            THEN LET rest == sub(s, i + 1, bytes, norm_sep, raw, ign)
                 IN  IF rest.ok THEN [rest EXCEPT !.out = << s[i + 1] >> \o @]
                     ELSE rest
            ELSE LET r == norm(s, m, bytes, norm_sep, raw, ign)
                 IN  IF ~r.ok
                     THEN [ok |-> FALSE, out |-> << >>, err |-> r.err, value |-> r.value,
                           pos |-> r.pos, toks |-> << Tok(s, m, r) >>]
                     ELSE LET rest == sub(s, m.end, bytes, norm_sep, raw, ign)
                          IN  IF rest.ok
                              THEN [rest EXCEPT !.out = r.out \o @,
                                                !.toks = << Tok(s, m, r) >> \o @]
                              ELSE [rest EXCEPT !.toks = << Tok(s, m, r) >> \o @]

norm_pattern(s, bytes, norm_sep, raw, ign) ==
    IF ~norm_sep /\ ~raw /\ ~ign
    THEN [ok |-> TRUE, out |-> s, err |-> "", value |-> << >>, pos |-> -1, toks |-> << >>]
    ELSE sub(s, 0, bytes, norm_sep, raw, ign)

(***************************************************************************)
(* Inputs of the norm_pattern calls.                                       *)
(***************************************************************************)
MaxLen == 3

Alphabet == {BSL, FSL, 110, Ch_x, Ch_u, Ch_N, 49, 113}      \* \ / n x u N 1 q

RECURSIVE SeqsUpTo(_, _)
SeqsUpTo(S, n) ==
    IF n = 0 THEN {<< >>}
    ELSE LET shorter == SeqsUpTo(S, n - 1)
         IN  shorter \cup {Append(t, c) : t \in {u \in shorter : Len(u) = n - 1}, c \in S}

Pat_u12 == << BSL, Ch_u, 49, 50 >>                          \* \u12
Pat_u0041 == << BSL, Ch_u, 48, 48, 52, 49 >>                \* the six units \ u 0 0 4 1
Pat_foo_n_bar == << 102, 111, 111, BSL, 110, 98, 97, 114 >> \* foo\nbar
Pat_101 == << BSL, 49, 48, 49 >>                            \* \101
Pat_x41 == << BSL, Ch_x, 52, 49 >>                          \* \x41
Pat_x5cn == << BSL, Ch_x, 53, 99, 110 >>                    \* \x5cn
Pat_134x == << BSL, 49, 51, 52, Ch_x >>                     \* \134x
Pat_534 == << BSL, 53, 51, 52 >>                            \* \534
Pat_777 == << BSL, 55, 55, 55 >>                            \* \777
Pat_qq_xq == << 113, 113, BSL, Ch_x, 113 >>                 \* qq\xq
Pat_N_empty == << BSL, Ch_N, LBRACE, RBRACE >>              \* \N{}
Pat_N_OX == << BSL, Ch_N, LBRACE >> \o Name_OX \o << RBRACE >>
Pat_N_RS_n == << BSL, Ch_N, LBRACE >> \o Name_REVERSE_SOLIDUS \o << RBRACE, 110 >>
Pat_N_bad_x == << BSL, Ch_N, LBRACE, 113, RBRACE, BSL, Ch_x >>   \* \N{q}\x
Pat_U_A == << BSL, Ch_U, 48, 48, 48, 48, 48, 48, 52, 49 >>  \* \U00000041
Pat_U_big == << BSL, Ch_U, 48, 48, 49, 49, 48, 48, 48, 48 >> \* \U00110000
Pat_std_all == << BSL, 97, BSL, 98, BSL, 102, BSL, 110, BSL, 114, BSL, 116, BSL, 118,
                  BSL, BSL >>                               \* \a\b\f\n\r\t\v\\

Examples ==
    {Pat_u12, Pat_u0041, Pat_foo_n_bar, Pat_101, Pat_x41, Pat_x5cn, Pat_134x, Pat_534,
     Pat_777, Pat_qq_xq, Pat_N_empty, Pat_N_OX, Pat_N_RS_n, Pat_N_bad_x, Pat_U_A, Pat_U_big,
     Pat_std_all}

Patterns == SeqsUpTo(Alphabet, MaxLen) \cup Examples

NoResult == [ok |-> TRUE, out |-> << >>, err |-> "", value |-> << >>, pos |-> -1,
             toks |-> << >>]

\* norm_pattern(pattern, normalize, is_raw_chars, ignore_escape)
Normalize ==
    /\ npc = "args"
    /\ result' = norm_pattern(pattern, is_bytes, normalize, is_raw_chars, ignore_escape)
    /\ npc' = "once"
    /\ UNCHANGED << pattern, is_bytes, normalize, is_raw_chars, ignore_escape, result2 >>
    /\ UNCHANGED << avars, ivars >>

\* the caller feeds the returned pattern back with the same flags
Renormalize ==
    /\ npc = "once"
    /\ result.ok
    /\ result2' = norm_pattern(result.out, is_bytes, normalize, is_raw_chars, ignore_escape)
    /\ npc' = "twice"
    /\ UNCHANGED << pattern, is_bytes, normalize, is_raw_chars, ignore_escape, result >>
    /\ UNCHANGED << avars, ivars >>

NormNext == Normalize \/ Renormalize



(***************************************************************************)
(* fnmatch.py: the flags.  A flags value is the set of its bits, so that   *)
(* | is union, & is intersection and ^ is symmetric difference.  The bits  *)
(* are those of _wcparse: twelve distinct bits, and OtherBits for a bit of *)
(* _wcparse that fnmatch does not recognise.                               *)
(***************************************************************************)
CASE_FLAG == {"CASE"}       \* CASE (a reserved word here)
IGNORECASE == {"IGNORECASE"}
RAWCHARS == {"RAWCHARS"}
NEGATE == {"NEGATE"}
MINUSNEGATE == {"MINUSNEGATE"}
DOTMATCH == {"DOTMATCH"}
EXTMATCH == {"EXTMATCH"}
BRACE == {"BRACE"}
SPLIT == {"SPLIT"}
NEGATEALL == {"NEGATEALL"}
FORCEWIN == {"FORCEWIN"}
FORCEUNIX == {"FORCEUNIX"}

OtherBits == {"PATHNAME"}

FLAG_MASK ==
    CASE_FLAG \cup IGNORECASE \cup RAWCHARS \cup NEGATE \cup MINUSNEGATE \cup DOTMATCH \cup
    EXTMATCH \cup BRACE \cup SPLIT \cup NEGATEALL \cup FORCEWIN \cup FORCEUNIX

FlagBits == FLAG_MASK \cup OtherBits

AllFlags == SUBSET FlagBits

xor(a, b) == (a \ b) \cup (b \ a)

\* variant: the cancellation clears FORCEWIN only
_flag_transform_keep_unix(f) ==
    LET g == IF (f \cap FORCEUNIX) # {} /\ (f \cap FORCEWIN) # {}
             THEN xor(f, FORCEWIN)
             ELSE f
    IN  g \cap FLAG_MASK

_flag_transform(f) ==
    LET g == IF (f \cap FORCEUNIX) # {} /\ (f \cap FORCEWIN) # {}
             THEN xor(f, FORCEWIN \cup FORCEUNIX)
             ELSE f
    IN  g \cap FLAG_MASK

(***************************************************************************)
(* _wcparse, the pattern compiler fnmatch.py delegates to.  A pattern is a *)
(* literal name or the wildcard "*"; a matcher keeps what it was compiled   *)
(* from, and matching depends on nothing else.                             *)
(***************************************************************************)
Names == {"a", "A", "b"}

PatternSets == {{"a"}, {"*"}, {"A", "b"}}

Excludes == {{}, {"b"}}

Fold(n) == IF n = "A" THEN "a" ELSE n

case_sensitive(f) ==
    IF CASE_FLAG \subseteq f THEN TRUE
    ELSE IF IGNORECASE \subseteq f THEN FALSE
    ELSE ~(FORCEWIN \subseteq f)

wc_hit(p, f, name) ==
    \/ p = "*"
    \/ IF case_sensitive(f) THEN p = name ELSE Fold(p) = Fold(name)

wc_compile(pats, f, excl) == [patterns |-> pats, flags |-> f, exclude |-> excl]

wc_match(o, name) ==
    /\ \E p \in o.patterns : wc_hit(p, o.flags, name)
    /\ ~ \E p \in o.exclude : wc_hit(p, o.flags, name)

wc_translate(pats, f, excl) == [translated |-> pats, flags |-> f, exclude |-> excl]

wc_is_magic(pats, f) == "*" \in pats

NoObj == [patterns |-> {}, flags |-> {}, exclude |-> {}]

(***************************************************************************)
(* fnmatch.py: translate, fnmatch, filter, is_magic, one statement a step. *)
(***************************************************************************)
MaxFiles == 2

ApiFlags == SUBSET (CASE_FLAG \cup IGNORECASE \cup FORCEWIN \cup FORCEUNIX \cup OtherBits)

FilenameLists == SeqsUpTo(Names, MaxFiles)

\* the call itself: the arguments are bound
Enter(fn, f, p, e, names) ==
    /\ op' = fn
    /\ apc' = "resolve"
    /\ in_flags' = f
    /\ flags' = f
    /\ patterns' = p
    /\ exclude' = e
    /\ filenames' = names
    /\ UNCHANGED << fi, obj, matches, calls, evals, ret, nvars, ivars >>

\* a call of _flag_transform on its own
flag_transform_call ==
    /\ apc = "idle"
    /\ \E f \in AllFlags :
        /\ in_flags' = f
        /\ flags' = _flag_transform(f)
    /\ op' = "_flag_transform"
    /\ apc' = "done"
    /\ UNCHANGED << patterns, exclude, filenames, fi, obj, matches, calls, evals, ret >>
    /\ UNCHANGED << nvars, ivars >>

translate_enter ==
    /\ apc = "idle"
    /\ \E f \in ApiFlags, p \in PatternSets, e \in Excludes :
        Enter("translate", f, p, e, << >>)

translate_resolve ==
    /\ op = "translate" /\ apc = "resolve"
    /\ flags' = _flag_transform(flags)
    /\ apc' = "delegate"
    /\ UNCHANGED << op, in_flags, patterns, exclude, filenames, fi, obj, matches, calls,
                    evals, ret, nvars, ivars >>

translate_delegate ==
    /\ op = "translate" /\ apc = "delegate"
    /\ calls' = Append(calls, [fn |-> "translate", flags |-> flags])
    /\ ret' = wc_translate(patterns, flags, exclude)
    /\ apc' = "done"
    /\ UNCHANGED << op, in_flags, flags, patterns, exclude, filenames, fi, obj, matches,
                    evals, nvars, ivars >>

fnmatch_enter ==
    /\ apc = "idle"
    /\ \E f \in ApiFlags, p \in PatternSets, e \in Excludes, n \in Names :
        Enter("fnmatch", f, p, e, << n >>)

fnmatch_resolve ==
    /\ op = "fnmatch" /\ apc = "resolve"
    /\ flags' = _flag_transform(flags)
    /\ apc' = "delegate"
    /\ UNCHANGED << op, in_flags, patterns, exclude, filenames, fi, obj, matches, calls,
                    evals, ret, nvars, ivars >>

fnmatch_delegate ==
    /\ op = "fnmatch" /\ apc = "delegate"
    /\ calls' = Append(calls, [fn |-> "compile", flags |-> flags])
    /\ evals' = Append(evals, filenames[1])
    /\ ret' = wc_match(wc_compile(patterns, flags, exclude), filenames[1])
    /\ apc' = "done"
    /\ UNCHANGED << op, in_flags, flags, patterns, exclude, filenames, fi, obj, matches,
                    nvars, ivars >>

\* fnmatch(filename, patterns, flags=f, exclude=e) as a value
fnmatch(name, p, f, e) == wc_match(wc_compile(p, _flag_transform(f), e), name)

filter_enter ==
    /\ apc = "idle"
    /\ \E f \in ApiFlags, p \in PatternSets, e \in Excludes, names \in FilenameLists :
        Enter("filter", f, p, e, names)

filter_resolve ==
    /\ op = "filter" /\ apc = "resolve"
    /\ matches' = << >>
    /\ flags' = _flag_transform(flags)
    /\ apc' = "compile"
    /\ UNCHANGED << op, in_flags, patterns, exclude, filenames, fi, obj, calls,
                    evals, ret, nvars, ivars >>

filter_compile ==
    /\ op = "filter" /\ apc = "compile"
    /\ obj' = wc_compile(patterns, flags, exclude)
    /\ calls' = Append(calls, [fn |-> "compile", flags |-> flags])
    /\ apc' = "loop"
    /\ UNCHANGED << op, in_flags, flags, patterns, exclude, filenames, fi, matches,
                    evals, ret, nvars, ivars >>

\* variant: the loop body puts a match in front of the list
filter_loop_prepend ==
    /\ op = "filter" /\ apc = "loop"
    /\ fi < Len(filenames)
    /\ LET filename == filenames[fi + 1]
       IN  /\ evals' = Append(evals, filename)
           /\ matches' = IF wc_match(obj, filename) THEN << filename >> \o matches
                         ELSE matches
    /\ fi' = fi + 1
    /\ UNCHANGED << op, apc, in_flags, flags, patterns, exclude, filenames, obj, calls,
                    ret, nvars, ivars >>

\* one turn of: for filename in filenames
filter_loop ==
    /\ op = "filter" /\ apc = "loop"
    /\ fi < Len(filenames)
    /\ LET filename == filenames[fi + 1]
       IN  /\ evals' = Append(evals, filename)
           /\ matches' = IF wc_match(obj, filename) THEN Append(matches, filename)
                         ELSE matches
    /\ fi' = fi + 1
    /\ UNCHANGED << op, apc, in_flags, flags, patterns, exclude, filenames, obj, calls,
                    ret, nvars, ivars >>

filter_return ==
    /\ op = "filter" /\ apc = "loop"
    /\ fi >= Len(filenames)
    /\ ret' = matches
    /\ apc' = "done"
    /\ UNCHANGED << op, in_flags, flags, patterns, exclude, filenames, fi, obj, matches,
                    calls, evals, nvars, ivars >>

is_magic_enter ==
    /\ apc = "idle"
    /\ \E f \in ApiFlags, p \in PatternSets : Enter("is_magic", f, p, {}, << >>)

is_magic_resolve ==
    /\ op = "is_magic" /\ apc = "resolve"
    /\ flags' = _flag_transform(flags)
    /\ apc' = "delegate"
    /\ UNCHANGED << op, in_flags, patterns, exclude, filenames, fi, obj, matches, calls,
                    evals, ret, nvars, ivars >>

is_magic_delegate ==
    /\ op = "is_magic" /\ apc = "delegate"
    /\ calls' = Append(calls, [fn |-> "is_magic", flags |-> flags])
    /\ ret' = wc_is_magic(patterns, flags)
    /\ apc' = "done"
    /\ UNCHANGED << op, in_flags, flags, patterns, exclude, filenames, fi, obj, matches,
                    evals, nvars, ivars >>

ApiNext ==
    \/ flag_transform_call
    \/ translate_enter \/ translate_resolve \/ translate_delegate
    \/ fnmatch_enter \/ fnmatch_resolve \/ fnmatch_delegate
    \/ filter_enter \/ filter_resolve \/ filter_compile \/ filter_loop \/ filter_return
    \/ is_magic_enter \/ is_magic_resolve \/ is_magic_delegate


(***************************************************************************)
(* util.py: StringIter.                                                    *)
(***************************************************************************)
MaxStr == 3          \* longest string scanned
MaxCount == 2        \* largest count given to advance and rewind, either sign
MaxOver == 2         \* how far outside 0..len the index is followed

IterAlphabet == {97, 98}

Counts == (0 - MaxCount)..MaxCount

Followed(i) == i \in (0 - MaxOver)..(Len(_string) + MaxOver)

\* the compiled patterns handed to match: [ab]+ style runs, [cls]{min,}
Regexes == << [cls |-> {97}, min |-> 1],
              [cls |-> {97, 98}, min |-> 1],
              [cls |-> {98}, min |-> 0] >>

RECURSIVE Run(_, _, _)
\* number of consecutive units of cls in s from offset pos on
Run(s, pos, cls) ==
    IF pos < Len(s) /\ s[pos + 1] \in cls THEN 1 + Run(s, pos + 1, cls) ELSE 0

\* pattern.match(string, pos): m.end(), or -1 for None.  pos is clamped to 0..len.
re_match(p, s, i) ==
    LET pos == IF i < 0 THEN 0 ELSE IF i > Len(s) THEN Len(s) ELSE i
        n == Run(s, pos, p.cls)
    IN  IF n >= p.min THEN pos + n ELSE -1

\* string[i]: a negative i counts from the end; IndexError outside -len..len-1
getitem(s, i) ==
    IF i >= 0 /\ i < Len(s) THEN [ok |-> TRUE, ch |-> s[i + 1]]
    ELSE IF i < 0 /\ i >= 0 - Len(s) THEN [ok |-> TRUE, ch |-> s[Len(s) + i + 1]]
    ELSE [ok |-> FALSE, ch |-> -1]

NoCall == [op |-> "__init__", arg |-> 0, ok |-> TRUE, before |-> 0, ret |-> -1]

match ==
    /\ \E k \in 1..Len(Regexes) :
        LET e == re_match(Regexes[k], _string, _index)
        IN  /\ _index' = IF e # -1 THEN e ELSE _index
            /\ last' = [op |-> "match", arg |-> k, ok |-> e # -1, before |-> _index,
                        ret |-> e]
    /\ UNCHANGED << _string, nvars, avars >>

previous ==
    /\ LET r == getitem(_string, _index - 1)
       IN  last' = [op |-> "previous", arg |-> 0, ok |-> r.ok, before |-> _index,
                    ret |-> r.ch]
    /\ UNCHANGED << _string, _index, nvars, avars >>

advance ==
    /\ \E count \in Counts :
        /\ Followed(_index + count)
        /\ _index' = _index + count
        /\ last' = [op |-> "advance", arg |-> count, ok |-> TRUE, before |-> _index,
                    ret |-> -1]
    /\ UNCHANGED << _string, nvars, avars >>

\* variant: the test against the index is missing
rewind_unchecked ==
    /\ \E count \in Counts :
        /\ Followed(_index - count)
        /\ _index' = _index - count
        /\ last' = [op |-> "rewind", arg |-> count, ok |-> TRUE, before |-> _index,
                    ret |-> -1]
    /\ UNCHANGED << _string, nvars, avars >>

rewind ==
    /\ \E count \in Counts :
        IF count > _index
        THEN /\ _index' = _index
             /\ last' = [op |-> "rewind", arg |-> count, ok |-> FALSE, before |-> _index,
                         ret |-> -1]
        ELSE /\ Followed(_index - count)
             /\ _index' = _index - count
             /\ last' = [op |-> "rewind", arg |-> count, ok |-> TRUE, before |-> _index,
                         ret |-> -1]
    /\ UNCHANGED << _string, nvars, avars >>

\* variant: the index is moved before the unit is read
iternext_eager ==
    /\ Followed(_index + 1)
    /\ LET r == getitem(_string, _index)
       IN  /\ _index' = _index + 1
           /\ last' = [op |-> "iternext", arg |-> 0, ok |-> r.ok, before |-> _index,
                       ret |-> r.ch]
    /\ UNCHANGED << _string, nvars, avars >>

iternext ==
    /\ LET r == getitem(_string, _index)
       IN  /\ r.ok => Followed(_index + 1)
           /\ _index' = IF r.ok THEN _index + 1 ELSE _index
           /\ last' = [op |-> "iternext", arg |-> 0, ok |-> r.ok, before |-> _index,
                       ret |-> r.ch]
    /\ UNCHANGED << _string, nvars, avars >>

IterNext == match \/ previous \/ advance \/ rewind \/ iternext

(***************************************************************************)
(* Specifications                                                          *)
(***************************************************************************)
\* the arguments of a norm_pattern call; no fnmatch.py call, no StringIter
InitNorm ==
    /\ pattern \in Patterns
    /\ is_bytes \in BOOLEAN
    /\ normalize \in BOOLEAN
    /\ is_raw_chars \in BOOLEAN
    /\ ignore_escape \in BOOLEAN
    /\ npc = "args"
    /\ result = NoResult
    /\ result2 = NoResult
    /\ op = "idle"
    /\ apc = "idle"
    /\ in_flags = {}
    /\ flags = {}
    /\ patterns = {}
    /\ exclude = {}
    /\ filenames = << >>
    /\ fi = 0
    /\ obj = NoObj
    /\ matches = << >>
    /\ calls = << >>
    /\ evals = << >>
    /\ ret = "none"
    /\ _string = << >>
    /\ _index = 0
    /\ last = NoCall

\* no fnmatch.py function called yet; no norm_pattern call, no StringIter
InitApi ==
    /\ pattern = << >>
    /\ is_bytes = FALSE
    /\ normalize = FALSE
    /\ is_raw_chars = FALSE
    /\ ignore_escape = FALSE
    /\ npc = "args"
    /\ result = NoResult
    /\ result2 = NoResult
    /\ op = "idle"
    /\ apc = "idle"
    /\ in_flags = {}
    /\ flags = {}
    /\ patterns = {}
    /\ exclude = {}
    /\ filenames = << >>
    /\ fi = 0
    /\ obj = NoObj
    /\ matches = << >>
    /\ calls = << >>
    /\ evals = << >>
    /\ ret = "none"
    /\ _string = << >>
    /\ _index = 0
    /\ last = NoCall

\* StringIter(string); no norm_pattern call, no fnmatch.py call
InitIter ==
    /\ pattern = << >>
    /\ is_bytes = FALSE
    /\ normalize = FALSE
    /\ is_raw_chars = FALSE
    /\ ignore_escape = FALSE
    /\ npc = "args"
    /\ result = NoResult
    /\ result2 = NoResult
    /\ op = "idle"
    /\ apc = "idle"
    /\ in_flags = {}
    /\ flags = {}
    /\ patterns = {}
    /\ exclude = {}
    /\ filenames = << >>
    /\ fi = 0
    /\ obj = NoObj
    /\ matches = << >>
    /\ calls = << >>
    /\ evals = << >>
    /\ ret = "none"
    /\ _string \in SeqsUpTo(IterAlphabet, MaxStr)
    /\ _index = 0
    /\ last = NoCall

\* norm_pattern called on a pattern, then on what it returned
SpecNorm == InitNorm /\ [][NormNext]_vars

\* one call of a function of fnmatch.py
SpecApi == InitApi /\ [][ApiNext]_vars

\* a StringIter and the calls made on it
SpecIter == InitIter /\ [][IterNext]_vars

(***************************************************************************)
(* Properties of norm_pattern (SpecNorm)                                   *)
(***************************************************************************)
Scanned == npc # "args" /\ (normalize \/ is_raw_chars \/ ignore_escape)

MalformedGrp == IF is_bytes THEN 6 ELSE 7
OpaqueGrp == IF is_bytes THEN 5 ELSE 6

Toks == {result.toks[k] : k \in 1..Len(result.toks)}

\* some numeric, unicode or named escape of the pattern was decoded to a backslash
DecodedBackslash ==
    is_raw_chars /\ \E t \in Toks : t.grp \in {3, 5} /\ t.ok /\ t.out = << BSL >>

\* C1 (as stated): for every pattern and flags n, r for which norm_pattern returns,
\* a second call on the returned pattern with the same flags also returns, and
\* returns the same units.
C1_Idempotent_Stated ==
    (npc = "twice" /\ ~ignore_escape) => (result2.ok /\ result2.out = result.out)

\* C1 (amended): the second call returns the same units whenever no numeric,
\* unicode or named escape of the pattern was decoded to a backslash (always so
\* with is_raw_chars off).
C1_Idempotent ==
    (npc = "twice" /\ ~ignore_escape /\ ~DecodedBackslash)
        => (result2.ok /\ result2.out = result.out)

C1_Witness ==
    /\ npc = "twice" /\ ~ignore_escape /\ is_raw_chars /\ normalize
    /\ pattern = << BSL, FSL, 110 >>
    /\ result.out = << BSL, BSL, BSL, BSL, 110 >>
    /\ result2.ok /\ result2.out = result.out

\* C2 (as stated): whenever the scan runs, a pattern holding a malformed escape
\* prefix makes the call fail with the invalid-escape error, whatever is_raw_chars.
C2_MalformedAlwaysFails_Stated ==
    Scanned => \A t \in Toks :
        t.grp = MalformedGrp => (~result.ok /\ result.err = "SyntaxError")

\* C2 (amended): with is_raw_chars on, a malformed escape prefix the scan reaches
\* makes the call fail with the invalid-escape error and no output; with
\* is_raw_chars off the call never fails and the prefix is passed through, behind
\* one more backslash when ignore_escape is on.
C2_MalformedFailsIffRaw ==
    Scanned =>
        /\ ~is_raw_chars => result.ok
        /\ \A t \in Toks : t.grp = MalformedGrp =>
            IF is_raw_chars
            THEN ~t.ok /\ ~result.ok /\ result.err = "SyntaxError" /\ result.out = << >>
            ELSE t.ok /\ t.out = (IF ignore_escape THEN << BSL >> \o t.text ELSE t.text)
        /\ (pattern = << BSL, Ch_x, 113 >> /\ ~is_raw_chars) =>
                result.out = (IF ignore_escape THEN << BSL, BSL, Ch_x, 113 >>
                              ELSE << BSL, Ch_x, 113 >>)

C2_Witness ==
    /\ npc = "once" /\ ~is_raw_chars /\ normalize /\ ~ignore_escape
    /\ pattern = << BSL, Ch_x, 113 >>
    /\ result.ok /\ result.out = pattern
    /\ \E t \in Toks : t.grp = MalformedGrp

\* number of leading units that are neither a backslash nor a slash
LeadingOrdinary(s) ==
    LET special == {k \in 1..Len(s) : s[k] \in {BSL, FSL}}
    IN  IF special = {} THEN Len(s) ELSE (CHOOSE k \in special : \A j \in special : k <= j) - 1

\* C3 (as stated): a failing call with is_raw_chars on has no output and its error
\* carries the offending substring and its 0-based offset: \u12 is cited whole at
\* position 0, and after k ordinary units the position is k.
C3_ErrorCitesEscape_Stated ==
    (npc # "args" /\ is_raw_chars) =>
        /\ (~result.ok /\ result.err = "SyntaxError") => result.out = << >>
        /\ (~result.ok /\ result.err = "SyntaxError" /\ Len(result.toks) = 1)
                => result.pos = LeadingOrdinary(pattern)
        /\ (pattern = Pat_u12 /\ ~is_bytes) =>
                (~result.ok /\ result.value = Pat_u12 /\ result.pos = 0)

\* C3 (amended): a failing call with is_raw_chars on has no output and its error
\* carries the two-unit escape prefix (backslash and N, U, u or x) and the 0-based
\* offset of that prefix in the pattern: \u12 is cited as \u at position 0, and
\* after k ordinary units the position is k.
C3_ErrorCitesPrefix ==
    (npc # "args" /\ is_raw_chars) =>
        /\ (~result.ok /\ result.err = "SyntaxError") =>
            /\ result.out = << >>
            /\ result.pos \in 0..(Len(pattern) - 2)
            /\ result.value = SubSeq(pattern, result.pos + 1, result.pos + 2)
            /\ result.value[1] = BSL
            /\ result.value[2] \in (IF is_bytes THEN {Ch_x} ELSE {Ch_N, Ch_U, Ch_u, Ch_x})
        /\ (~result.ok /\ result.err = "SyntaxError" /\ Len(result.toks) = 1)
                => result.pos = LeadingOrdinary(pattern)
        /\ (pattern = Pat_u12 /\ ~is_bytes) =>
                (~result.ok /\ result.err = "SyntaxError"
                 /\ result.value = << BSL, Ch_u >> /\ result.pos = 0)

C3_Witness ==
    /\ npc = "once" /\ is_raw_chars /\ pattern = Pat_qq_xq
    /\ ~result.ok /\ result.err = "SyntaxError"
    /\ result.value = << BSL, Ch_x >> /\ result.pos = 2

\* C5 (as stated): an opaque escape gets one more backslash in front exactly when
\* is_raw_chars is off and ignore_escape is on; otherwise it is passed through.
C5_OpaquePrefix_Stated ==
    Scanned => \A t \in Toks : t.grp = OpaqueGrp =>
        t.out = (IF ~is_raw_chars /\ ignore_escape THEN << BSL >> \o t.text ELSE t.text)

\* C5 (amended): an opaque escape gets one more backslash in front exactly when
\* ignore_escape is on, whatever is_raw_chars; otherwise it is passed through.
C5_OpaquePrefix ==
    Scanned =>
        /\ \A t \in Toks : t.grp = OpaqueGrp =>
            /\ t.ok
            /\ t.text[1] = BSL /\ Len(t.text) = 2
            /\ t.out = (IF ignore_escape THEN << BSL >> \o t.text ELSE t.text)
        /\ pattern = << BSL, 113 >> =>
            result.out = (IF ignore_escape THEN << BSL, BSL, 113 >> ELSE << BSL, 113 >>)

C5_Witness ==
    /\ npc = "once" /\ is_raw_chars /\ ignore_escape
    /\ pattern = << BSL, 113 >>
    /\ result.out = << BSL, BSL, 113 >>

\* the character a standard escape letter denotes
Denoted(c) ==
    CASE c = 97 -> 7 [] c = 98 -> 8 [] c = 102 -> 12 [] c = 110 -> 10
      [] c = 114 -> 13 [] c = 116 -> 9 [] c = 118 -> 11 [] c = 92 -> 92

\* C6 (as stated): with is_raw_chars on each of the eight standard escapes is
\* replaced by the one character it denotes (one backslash for an escaped
\* backslash); with is_raw_chars off the two units are left unchanged.
C6_StandardEscape_Stated ==
    Scanned => \A t \in Toks : t.grp = 2 =>
        t.out = (IF is_raw_chars THEN << Denoted(t.text[2]) >> ELSE t.text)

\* C6 (amended): with is_raw_chars on each of \a \b \f \n \r \t \v is replaced by
\* the one character it denotes and an escaped backslash stays the two units it
\* was; with is_raw_chars off the two units are left unchanged.
C6_StandardEscape ==
    Scanned =>
        /\ \A t \in Toks : t.grp = 2 =>
            /\ t.text[1] = BSL /\ t.text[2] \in StdLetters
            /\ t.out = (IF ~is_raw_chars \/ t.text[2] = BSL THEN t.text
                        ELSE << Denoted(t.text[2]) >>)
        /\ (pattern = Pat_foo_n_bar /\ is_raw_chars /\ ~normalize)
                => result.out = << 102, 111, 111, 10, 98, 97, 114 >>
        /\ (pattern = Pat_std_all /\ is_raw_chars)
                => result.out = << 7, 8, 12, 10, 13, 9, 11, BSL, BSL >>
        /\ (pattern = Pat_std_all /\ ~is_raw_chars) => result.out = pattern

C6_Witness ==
    /\ npc = "once" /\ is_raw_chars /\ pattern = Pat_std_all
    /\ result.out = << 7, 8, 12, 10, 13, 9, 11, BSL, BSL >>

\* C7: for a byte pattern, \u, \U and \N are opaque escapes whatever follows them:
\* they are never decoded and never make the call fail (they are passed through,
\* behind the backslash ignore_escape adds to every opaque escape), the six bytes
\* \ u 0 0 4 1 come back as the same six bytes, and every unit of the output is a
\* byte.
C7_BytesNoUnicode ==
    (npc # "args" /\ is_bytes) =>
        /\ \A k \in 1..Len(result.out) : result.out[k] \in 0..255
        /\ result.err \notin {"KeyError", "ValueError"}
        /\ \A t \in Toks : (Len(t.text) >= 2 /\ t.text[1] = BSL /\ t.text[2] \in {Ch_u, Ch_U, Ch_N}) =>
            /\ t.grp = OpaqueGrp /\ t.ok /\ Len(t.text) = 2
            /\ t.out = (IF ignore_escape THEN << BSL >> \o t.text ELSE t.text)
        /\ (\A t \in Toks : t.grp # MalformedGrp) => result.ok
        /\ (pattern \in {Pat_u0041, Pat_U_A, Pat_N_OX} /\ ~ignore_escape)
                => (result.ok /\ result.out = pattern)

C7_Witness ==
    /\ npc = "once" /\ is_bytes /\ is_raw_chars /\ ~normalize /\ ~ignore_escape
    /\ pattern = Pat_u0041
    /\ result.ok /\ result.out = Pat_u0041
    /\ \E t \in Toks : t.grp = OpaqueGrp /\ t.text = << BSL, Ch_u >>

(***************************************************************************)
(* Properties of fnmatch.py (SpecApi)                                      *)
(***************************************************************************)
TwelveFlags ==
    {"CASE", "IGNORECASE", "RAWCHARS", "NEGATE", "MINUSNEGATE", "DOTMATCH", "EXTMATCH",
     "BRACE", "SPLIT", "NEGATEALL", "FORCEWIN", "FORCEUNIX"}

Force == {"FORCEWIN", "FORCEUNIX"}

\* g is what resolving f has to give
ResolvedFrom(f, g) ==
    /\ ~(Force \subseteq g)
    /\ g \subseteq TwelveFlags
    /\ g \ Force = (f \cap TwelveFlags) \ Force
    /\ g \cap Force = (IF Force \subseteq f THEN {} ELSE f \cap Force)

\* C4: _flag_transform never leaves FORCEWIN and FORCEUNIX both set, leaves no bit
\* outside the twelve flags, and leaves every other recognized bit as it was (both
\* force bits cleared when both were set, unchanged otherwise); translate, fnmatch,
\* filter and is_magic each call the compiler, and only with flags resolved so.
C4_FlagsResolved ==
    /\ (op = "_flag_transform" /\ apc = "done") => ResolvedFrom(in_flags, flags)
    /\ \A k \in 1..Len(calls) : ResolvedFrom(in_flags, calls[k].flags)
    /\ (op \in {"translate", "fnmatch", "filter", "is_magic"} /\ apc = "done")
            => Len(calls) = 1

C4_Witness ==
    /\ op = "filter" /\ apc = "done"
    /\ in_flags = {"FORCEWIN", "FORCEUNIX", "IGNORECASE", "PATHNAME"}
    /\ Len(calls) = 1 /\ calls[1].flags = {"IGNORECASE"}

IsPrefix(a, b) == Len(a) <= Len(b) /\ a = SubSeq(b, 1, Len(a))

FnmatchHere(name) == fnmatch(name, patterns, in_flags, exclude)

\* C8: filter compiles once, before it evaluates any filename, evaluates every
\* filename once against that matcher in input order, and returns the filenames
\* for which fnmatch with the same arguments is true, in their order and as often
\* as they occur.
C8_FilterOnce ==
    op = "filter" =>
        /\ Len(calls) <= 1
        /\ evals # << >> => (Len(calls) = 1 /\ calls[1].fn = "compile")
        /\ IsPrefix(evals, filenames)
        /\ apc = "done" =>
            /\ Len(calls) = 1 /\ calls[1].fn = "compile"
            /\ evals = filenames
            /\ ret = SelectSeq(filenames, FnmatchHere)

C8_Witness ==
    /\ op = "filter" /\ apc = "done"
    /\ filenames = << "A", "a" >> /\ patterns = {"a"} /\ exclude = {}
    /\ in_flags = {"IGNORECASE", "PATHNAME"}
    /\ ret = << "A", "a" >>

(***************************************************************************)
(* Properties of StringIter (SpecIter)                                     *)
(***************************************************************************)
\* C9: a call that does not succeed leaves the index where it was (match without
\* a match, rewind by more than the index, iternext at or past the end); a match
\* sets it to the match end, iternext adds one, rewind subtracts count.
C9_FailureKeepsIndex ==
    /\ last.op = "match" =>
        IF last.ok THEN _index = last.ret /\ last.ret \in 0..Len(_string)
        ELSE _index = last.before
    /\ last.op = "rewind" =>
        /\ last.ok <=> ~(last.arg > last.before)
        /\ _index = (IF last.ok THEN last.before - last.arg ELSE last.before)
    /\ last.op = "iternext" =>
        /\ last.before >= Len(_string) => ~last.ok
        /\ _index = (IF last.ok THEN last.before + 1 ELSE last.before)

C9_Witness ==
    /\ last.op = "iternext" /\ ~last.ok
    /\ Len(_string) = 2 /\ _index = 2 /\ last.before = 2

InRange == _index >= 0 /\ _index <= Len(_string)

\* C10 (as stated): whatever calls of iternext, match, rewind and advance were
\* made, with whatever counts, the index is within 0..len.
C10_IndexBounded_Stated == InRange

\* C10 (amended): iternext, match and rewind with a count that is not negative
\* keep an index that is within 0..len within 0..len, and iternext then reads
\* only offsets 0..len-1; advance, and rewind with a negative count, add to the
\* index without any check.
C10_IndexBounded ==
    [][ (InRange /\ (\/ last'.op \in {"iternext", "match"}
                     \/ (last'.op = "rewind" /\ last'.arg >= 0)))
        => /\ InRange'
           /\ (last'.op = "iternext" /\ last'.ok) => last'.before \in 0..(Len(_string) - 1)
      ]_vars

C10_Witness ==
    /\ last.op = "rewind" /\ last.ok /\ last.arg = 2 /\ last.before = 2
    /\ _index = 0 /\ Len(_string) = 3

====
